---- MODULE Spec2Model ----
(***************************************************************************)
(* A model of the StorageNMap generator (frame/support/src/storage/       *)
(* generator/nmap.rs): a map keyed by a tuple of components, each hashed   *)
(* with its own hasher, laid over a flat store of raw bytes ordered by key.*)
(*                                                                         *)
(* The map is generic; it is instantiated here as in the file's test      *)
(* module, with two key components hashed by Blake2_128Concat and         *)
(* Twox64Concat, the key components and the value being one-byte integers. *)
(* Byte strings are sequences of naturals.  An Option is a sequence of     *)
(* length at most one: << >> is None and <<x>> is Some(x).                 *)
(***************************************************************************)
EXTENDS Integers, Sequences, FiniteSets, TLC

VARIABLES
    store,  \* the raw store: raw key -> Option(raw bytes)
    pre,    \* the raw store as it was when the last call started
    op      \* the last call: its name, arguments and what it returned

vars == <<store, pre, op>>

---------------------------------------------------------------------------
(* Bounds of the model *)

\* Most entries the raw store holds in the single-key specification.
MaxEntries == 2

\* Most entries the raw store holds in the iteration specification.
MaxIterEntries == 4

\* The largest limit handed to remove_prefix.
MaxLimit == 2

\* The most entries the store holds in the stepwise specification.
MaxStepEntries == 3

\* The most entries the store holds in the specification of the loops.
MaxLoopEntries == 2

\* The most iterations of translate's loop the model follows.
MaxIterations == 6

\* The values of a key component (u8 here).
KeyVals == {0, 1}

\* The values of the map (u8 here).
Vals == {0, 1}

\* The value a ValueQuery map reads for an absent key.
DefaultVal == 0

---------------------------------------------------------------------------
(* Options, bytes *)

None == << >>

Some(x) == <<x>>

IsSome(o) == o # << >>

Unwrap(o) == o[1]

RECURSIVE ByteSum(_)
ByteSum(x) == IF x = << >> THEN 0 ELSE x[1] + ByteSum(Tail(x))

\* Vec<u8> / slice starts_with.
starts_with(n, p) == Len(n) >= Len(p) /\ SubSeq(n, 1, Len(p)) = p

\* The order of raw keys in the store: lexicographic over bytes.
RECURSIVE LexLess(_, _)
LexLess(a, b) ==
    IF b = << >> THEN FALSE
    ELSE IF a = << >> THEN TRUE
    ELSE IF a[1] = b[1] THEN LexLess(Tail(a), Tail(b))
    ELSE a[1] < b[1]

---------------------------------------------------------------------------
(* The codec: one-byte integers *)

\* Encode::encode of a u8.
encode(v) == <<v % 256>>

\* Decode::decode of a u8 from the front of a slice: Some(<<value, rest>>),
\* or None when the input is too short.
decode(bytes) == IF Len(bytes) >= 1 THEN Some(<<bytes[1], Tail(bytes)>>) ELSE None

\* V::decode(&mut raw_value): the value, the rest of the input dropped.
decode_value(bytes) == IF Len(bytes) >= 1 THEN Some(bytes[1]) ELSE None

---------------------------------------------------------------------------
(* The hashers *)

\* The fixed-length digests, one byte long in the model.
Twox128(x) == <<(11 * ByteSum(x) + 6) % 256>>

Blake2_128(x) == <<(7 * ByteSum(x) + 3) % 5>>

Twox64(x) == <<(3 * ByteSum(x) + 2) % 4>>

\* StorageHasher::hash by hasher name.
Hash(h, x) ==
    CASE h = "Blake2_128Concat" -> Blake2_128(x) \o x
      [] h = "Twox64Concat" -> Twox64(x) \o x
      [] h = "Identity" -> x

\* The length of the digest a concat hasher puts in front of its input.
DigestLen(h) ==
    CASE h = "Blake2_128Concat" -> Len(Blake2_128(<< >>))
      [] h = "Twox64Concat" -> Len(Twox64(<< >>))
      [] h = "Identity" -> Len(<< >>)

\* ReversibleStorageHasher::reverse: the input with the digest cut off.
reverse(h, x) == IF Len(x) < DigestLen(h) THEN << >> ELSE SubSeq(x, DigestLen(h) + 1, Len(x))

---------------------------------------------------------------------------
(* The key generators: a sequence of hashers, one per component *)

\* The map's own key generator K.
K == <<"Blake2_128Concat", "Twox64Concat">>

\* Another generator: the alternate hashers of migrate_keys, and KOther of swap.
KIdentity == <<"Identity", "Identity">>

KeyGenerators == {K, KIdentity}

Tuples == {<<a, b>> : a \in KeyVals, b \in KeyVals}

\* KeyGenerator::final_key, and partial_key on a strict prefix of the components:
\* each component encoded, hashed with its own hasher, concatenated in order.
RECURSIVE KG_key(_, _)
KG_key(kg, key) ==
    IF key = << >> THEN << >>
    ELSE Hash(kg[1], encode(key[1])) \o KG_key(Tail(kg), Tail(key))

\* KeyGenerator::migrate_key: the same with the hashers the caller hands in.
migrate_key(key, hash_fns) == KG_key(hash_fns, key)

\* ReversibleKeyGenerator::decode_final_key over the generator's components, left
\* to right: Some(<<components, rest>>) or None.
RECURSIVE decode_final_key(_, _)
\* The component `first` in front of the components decoded after it.
decode_joined(first, r) ==
    IF ~IsSome(r) THEN None
    ELSE Some(<<<<first>> \o Unwrap(r)[1], Unwrap(r)[2]>>)

\* The first component decoded as d, the others decoded from what it left.
decode_component(kg, d) ==
    IF ~IsSome(d) THEN None
    ELSE decode_joined(Unwrap(d)[1], decode_final_key(Tail(kg), Unwrap(d)[2]))

decode_final_key(kg, material) ==
    IF kg = << >> THEN Some(<<<< >>, material>>)
    ELSE decode_component(kg, decode(reverse(kg[1], material)))

\* Ok((k, _)) => Ok(k): the decoded components, what follows them dropped.
components(r) == IF IsSome(r) THEN Some(Unwrap(r)[1]) ELSE None

\* HasReversibleKeyPrefix::decode_partial_key for a prefix of m components: the
\* remaining components decoded from the key material.
decode_partial_key(kg, m, material) ==
    components(decode_final_key(SubSeq(kg, m + 1, Len(kg)), material))

---------------------------------------------------------------------------
(* StorageNMap: the keys *)

module_prefix == <<1>>

storage_prefix == <<2>>

prefix_hash == Twox128(module_prefix) \o Twox128(storage_prefix)

storage_n_map_partial_key(key) ==
    Twox128(module_prefix) \o Twox128(storage_prefix) \o KG_key(K, key)

\* The final key with the hashed components in reverse order.
storage_n_map_final_key_reversed(kg, key) ==
    Twox128(module_prefix) \o Twox128(storage_prefix)
        \o KG_key(<<kg[2], kg[1]>>, <<key[2], key[1]>>)

storage_n_map_final_key(kg, key) ==
    Twox128(module_prefix) \o Twox128(storage_prefix) \o KG_key(kg, key)

\* The test module's neighbours of a prefix: its last byte lowered or raised.
key_before_prefix(prefix) == [prefix EXCEPT ![Len(prefix)] = @ - 1]

key_after_prefix(prefix) == [prefix EXCEPT ![Len(prefix)] = @ + 1]

---------------------------------------------------------------------------
(* The raw keys and raw values of the model *)

FinalKeys == {storage_n_map_final_key(K, t) : t \in Tuples}

OtherKeys == {storage_n_map_final_key(KIdentity, t) : t \in Tuples}

\* The keys of the single-key specification.
PointKeys == FinalKeys \cup OtherKeys \cup {key_after_prefix(prefix_hash)}

\* The first components whose partial key has both neighbours (key_before_prefix
\* needs a last byte above 0).
K1s == KeyVals \ {0}

\* The keys of the iteration specification: the map's entries, the neighbours of
\* the map's prefix and of a partial key, the partial key itself (an entry with a
\* missing second component) and an entry with a cut second component.
IterKeys ==
    FinalKeys
    \cup {key_before_prefix(prefix_hash), key_after_prefix(prefix_hash)}
    \cup UNION {{key_before_prefix(storage_n_map_partial_key(<<k1>>)),
                 key_after_prefix(storage_n_map_partial_key(<<k1>>)),
                 storage_n_map_partial_key(<<k1>>),
                 storage_n_map_partial_key(<<k1>>) \o <<0>>} : k1 \in K1s}

Keys == PointKeys \cup IterKeys

\* The raw values written into the store from outside the map: the encoded
\* values and bytes that do not decode as a value.
RawVals == {encode(v) : v \in Vals} \cup {<< >>}

Present(s) == {k \in Keys : IsSome(s[k])}

EmptyStore == [k \in Keys |-> None]

---------------------------------------------------------------------------
(* The raw store (sp_io::storage and storage::unhashed) *)

get_raw(s, key) == s[key]

put_raw(s, key, bytes) == [s EXCEPT ![key] = Some(bytes)]

kill(s, key) == [s EXCEPT ![key] = None]

exists(s, key) == IsSome(s[key])

\* unhashed::get: the decoded value; None for an absent key and for bytes that
\* do not decode.
unhashed_get(s, key) == IF IsSome(s[key]) THEN decode_value(Unwrap(s[key])) ELSE None

put(s, key, v) == put_raw(s, key, encode(v))

\* unhashed::take: get, and kill when a value was read.  `raw` names the raw
\* store operations performed, in order.
take_read(s, key, r) ==
    [store |-> IF IsSome(r) THEN kill(s, key) ELSE s,
     ret |-> r,
     raw |-> IF IsSome(r) THEN <<"get", "delete">> ELSE <<"get">>]

unhashed_take(s, key) == take_read(s, key, unhashed_get(s, key))

\* unhashed::kill_prefix: the entries under the prefix are deleted in key order,
\* no more of them than the limit when there is one; the outcome tells whether
\* all of them went and how many were deleted.
kill_prefix_of(s, under, killed) ==
    [store |-> [k \in DOMAIN s |-> IF k \in killed THEN None ELSE s[k]],
     ret |-> <<IF killed = under THEN "AllRemoved" ELSE "SomeRemaining",
               Cardinality(killed)>>]

kill_prefix_within(s, under, limit) ==
    kill_prefix_of(s, under,
        IF ~IsSome(limit) THEN under
        ELSE {k \in under : Cardinality({j \in under : LexLess(j, k)}) < Unwrap(limit)})

kill_prefix(s, prefix, limit) ==
    kill_prefix_within(s, {k \in DOMAIN s : IsSome(s[k]) /\ starts_with(k, prefix)},
                       limit)

\* sp_io::storage::append: the item's bytes put after the stored ones and the
\* count in front of them raised; a key that holds nothing to count starts a list
\* of one item.
storage_append(s, key, bytes) ==
    put_raw(s, key,
        IF IsSome(s[key]) /\ Len(Unwrap(s[key])) >= 1
        THEN <<(Unwrap(s[key])[1] + 1) % 256>> \o Tail(Unwrap(s[key])) \o bytes
        ELSE <<1>> \o bytes)

\* sp_io::storage::next_key: the first present key strictly after `key`.
first_key(later) ==
    IF later = {} THEN None
    ELSE Some(CHOOSE k \in later : \A j \in later : j = k \/ LexLess(k, j))

next_key(s, key) == first_key({k \in Present(s) : LexLess(key, k)})

---------------------------------------------------------------------------
(* The query kinds.  A query is kept as a sequence: the Option itself for an *)
(* OptionQuery, <<v>> for the value of a ValueQuery.                        *)

QueryKinds == {"OptionQuery", "ValueQuery"}

from_optional_value_to_query(kind, v) ==
    IF kind = "OptionQuery" THEN v
    ELSE IF IsSome(v) THEN <<Unwrap(v)>> ELSE <<DefaultVal>>

from_query_to_optional_value(kind, q) ==
    IF kind = "OptionQuery" THEN q ELSE Some(q[1])

\* What a closure can leave in the query it was handed.
Queries(kind) ==
    IF kind = "OptionQuery" THEN {None} \cup {Some(v) : v \in Vals}
    ELSE {<<v>> : v \in Vals}

Options == {None} \cup {Some(v) : v \in Vals}

---------------------------------------------------------------------------
(* The closures handed to mutate / try_mutate: what the closure leaves in the *)
(* value it was handed (set = FALSE: it leaves it as it found it) and what it *)
(* returns.                                                                  *)

Closures(qs) ==
    {[set |-> FALSE, q |-> None, res |-> r] : r \in {"Ok", "Err"}}
    \cup {[set |-> TRUE, q |-> q, res |-> r] : q \in qs, r \in {"Ok", "Err"}}

NoClosure == [set |-> FALSE, q |-> None, res |-> ""]

\* f(&mut val): the value after the closure ran.
ApplyClosure(f, val) == IF f.set THEN f.q ELSE val

\* Option::ok_or(()).
ok_or(o) == IF IsSome(o) THEN <<"Ok", Unwrap(o)>> ELSE <<"Err">>

---------------------------------------------------------------------------
(* storage::StorageNMap for G: each operation gives the store it leaves,    *)
(* what it returns and, as `raw`, the raw store operations it performed in  *)
(* order: "get" (exists, get, get_raw), "put" (put, put_raw), "delete"      *)
(* (kill) and "append".                                                     *)

contains_key(s, key) ==
    [store |-> s, ret |-> exists(s, storage_n_map_final_key(K, key)),
     raw |-> <<"get">>]

get(kind, s, key) ==
    [store |-> s,
     ret |-> from_optional_value_to_query(kind,
                 unhashed_get(s, storage_n_map_final_key(K, key))),
     raw |-> <<"get">>]

\* try_get reading the raw bytes and falling back to the default when they do not
\* decode.
try_get_lossy(s, key) ==
    LET raw == get_raw(s, storage_n_map_final_key(K, key))
    IN  [store |-> s,
         ret |-> IF ~IsSome(raw) THEN <<"Err">>
                 ELSE IF IsSome(decode_value(Unwrap(raw)))
                      THEN <<"Ok", Unwrap(decode_value(Unwrap(raw)))>>
                      ELSE <<"Ok", DefaultVal>>,
         raw |-> <<"get">>]

try_get(s, key) ==
    [store |-> s, ret |-> ok_or(unhashed_get(s, storage_n_map_final_key(K, key))),
     raw |-> <<"get">>]

\* take that deletes the key whatever it read.
take_always_kills(kind, s, key) ==
    LET final_key == storage_n_map_final_key(K, key)
    IN  [store |-> kill(s, final_key),
         ret |-> from_optional_value_to_query(kind, unhashed_get(s, final_key)),
         raw |-> <<"get", "delete">>]

take(kind, s, key) ==
    LET final_key == storage_n_map_final_key(K, key)
        value == unhashed_take(s, final_key)
    IN  [store |-> value.store, ret |-> from_optional_value_to_query(kind, value.ret),
         raw |-> value.raw]

\* swap reading the first key only after it was overwritten.
swap_late_read(s, KOther, key1, key2) ==
    LET final_x_key == storage_n_map_final_key(K, key1)
        final_y_key == storage_n_map_final_key(KOther, key2)
        s1 == IF IsSome(get_raw(s, final_y_key))
              THEN put_raw(s, final_x_key, Unwrap(get_raw(s, final_y_key)))
              ELSE kill(s, final_x_key)
        v1 == get_raw(s1, final_x_key)
        s2 == IF IsSome(v1)
              THEN put_raw(s1, final_y_key, Unwrap(v1))
              ELSE kill(s1, final_y_key)
    IN  [store |-> s2, ret |-> None,
         raw |-> <<"get",
                   IF IsSome(get_raw(s, final_y_key)) THEN "put" ELSE "delete",
                   "get",
                   IF IsSome(v1) THEN "put" ELSE "delete">>]

swap(s, KOther, key1, key2) ==
    LET final_x_key == storage_n_map_final_key(K, key1)
        final_y_key == storage_n_map_final_key(KOther, key2)
        v1 == get_raw(s, final_x_key)
        s1 == IF IsSome(get_raw(s, final_y_key))
              THEN put_raw(s, final_x_key, Unwrap(get_raw(s, final_y_key)))
              ELSE kill(s, final_x_key)
        s2 == IF IsSome(v1)
              THEN put_raw(s1, final_y_key, Unwrap(v1))
              ELSE kill(s1, final_y_key)
    IN  [store |-> s2, ret |-> None,
         raw |-> <<"get", "get",
                   IF IsSome(get_raw(s, final_y_key)) THEN "put" ELSE "delete",
                   IF IsSome(v1) THEN "put" ELSE "delete">>]

\* insert that keeps a value the key already holds.
insert_if_absent(s, key, val) ==
    [store |-> IF IsSome(unhashed_get(s, storage_n_map_final_key(K, key))) THEN s
               ELSE put(s, storage_n_map_final_key(K, key), val),
     ret |-> None,
     raw |-> IF IsSome(unhashed_get(s, storage_n_map_final_key(K, key)))
             THEN <<"get">> ELSE <<"get", "put">>]

insert(s, key, val) ==
    [store |-> put(s, storage_n_map_final_key(K, key), val), ret |-> None,
     raw |-> <<"put">>]

remove(s, key) ==
    [store |-> kill(s, storage_n_map_final_key(K, key)), ret |-> None,
     raw |-> <<"delete">>]

\* try_mutate writing back whatever the closure returned.
try_mutate_always_writes(kind, s, key, f) ==
    LET final_key == storage_n_map_final_key(K, key)
        val == ApplyClosure(f,
                   from_optional_value_to_query(kind, unhashed_get(s, final_key)))
        new == from_query_to_optional_value(kind, val)
    IN  [store |-> IF IsSome(new) THEN put(s, final_key, Unwrap(new))
                   ELSE kill(s, final_key),
         ret |-> f.res,
         raw |-> <<"get", IF IsSome(new) THEN "put" ELSE "delete">>]

\* try_mutate that deletes the key on Ok instead of writing the value back.
try_mutate_drops_value(kind, s, key, f) ==
    LET final_key == storage_n_map_final_key(K, key)
    IN  [store |-> IF f.res = "Ok" THEN kill(s, final_key) ELSE s,
         ret |-> f.res,
         raw |-> IF f.res = "Ok" THEN <<"get", "delete">> ELSE <<"get">>]

try_mutate(kind, s, key, f) ==
    LET final_key == storage_n_map_final_key(K, key)
        val == ApplyClosure(f,
                   from_optional_value_to_query(kind, unhashed_get(s, final_key)))
        ret == f.res
        new == from_query_to_optional_value(kind, val)
    IN  [store |-> IF ret = "Ok"
                   THEN IF IsSome(new) THEN put(s, final_key, Unwrap(new))
                        ELSE kill(s, final_key)
                   ELSE s,
         ret |-> ret,
         raw |-> IF ret = "Ok"
                 THEN <<"get", IF IsSome(new) THEN "put" ELSE "delete">>
                 ELSE <<"get">>]

\* mutate: try_mutate with a closure that cannot fail.
mutate(kind, s, key, f) == try_mutate(kind, s, key, [f EXCEPT !.res = "Ok"])

\* try_mutate_exists that writes a value but never deletes.
try_mutate_exists_no_kill(s, key, f) ==
    LET final_key == storage_n_map_final_key(K, key)
        val == ApplyClosure(f, unhashed_get(s, final_key))
        ret == f.res
    IN  [store |-> IF ret = "Ok" /\ IsSome(val) THEN put(s, final_key, Unwrap(val))
                   ELSE s,
         ret |-> ret,
         raw |-> IF ret = "Ok" /\ IsSome(val) THEN <<"get", "put">> ELSE <<"get">>]

try_mutate_exists(s, key, f) ==
    LET final_key == storage_n_map_final_key(K, key)
        val == ApplyClosure(f, unhashed_get(s, final_key))
        ret == f.res
    IN  [store |-> IF ret = "Ok"
                   THEN IF IsSome(val) THEN put(s, final_key, Unwrap(val))
                        ELSE kill(s, final_key)
                   ELSE s,
         ret |-> ret,
         raw |-> IF ret = "Ok"
                 THEN <<"get", IF IsSome(val) THEN "put" ELSE "delete">>
                 ELSE <<"get">>]

mutate_exists(s, key, f) == try_mutate_exists(s, key, [f EXCEPT !.res = "Ok"])

\* remove_prefix that deletes everything under the prefix whatever the limit.
remove_prefix_ignores_limit(s, partial_key, limit) ==
    kill_prefix(s, storage_n_map_partial_key(partial_key), None)

remove_prefix(s, partial_key, limit) ==
    kill_prefix(s, storage_n_map_partial_key(partial_key), limit)

append(s, key, item) ==
    LET final_key == storage_n_map_final_key(K, key)
    IN  [store |-> storage_append(s, final_key, encode(item)), ret |-> None,
         raw |-> <<"append">>]

\* migrate_keys reading the legacy key without removing it.
migrate_keys_keeps_old(s, key, hash_fns) ==
    LET old_key == Twox128(module_prefix) \o Twox128(storage_prefix)
                       \o migrate_key(key, hash_fns)
        read == unhashed_get(s, old_key)
    IN  IF IsSome(read)
        THEN [store |-> put(s, storage_n_map_final_key(K, key), Unwrap(read)),
              ret |-> read, raw |-> <<"get", "put">>]
        ELSE [store |-> s, ret |-> None, raw |-> <<"get">>]

\* migrate_keys clearing the current key when there is nothing to migrate.
migrate_keys_clears_new(s, key, hash_fns) ==
    LET old_key == Twox128(module_prefix) \o Twox128(storage_prefix)
                       \o migrate_key(key, hash_fns)
        taken == unhashed_take(s, old_key)
    IN  IF IsSome(taken.ret)
        THEN [store |-> put(taken.store, storage_n_map_final_key(K, key),
                            Unwrap(taken.ret)),
              ret |-> taken.ret, raw |-> taken.raw \o <<"put">>]
        ELSE [store |-> kill(taken.store, storage_n_map_final_key(K, key)),
              ret |-> None, raw |-> taken.raw \o <<"delete">>]

migrate_keys(s, key, hash_fns) ==
    LET old_key == Twox128(module_prefix) \o Twox128(storage_prefix)
                       \o migrate_key(key, hash_fns)
        taken == unhashed_take(s, old_key)
    IN  IF IsSome(taken.ret)
        THEN [store |-> put(taken.store, storage_n_map_final_key(K, key),
                            Unwrap(taken.ret)),
              ret |-> taken.ret, raw |-> taken.raw \o <<"put">>]
        ELSE [store |-> taken.store, ret |-> None, raw |-> taken.raw]

---------------------------------------------------------------------------
(* PrefixIterator: a cursor over the raw entries under a prefix.  `closure`  *)
(* names the decoding closure it was built with, `m` the number of key       *)
(* components the prefix covers.  What a draining iterator does with an      *)
(* entry that fails to decode is left open: `drain_failed` says whether it   *)
(* removes that entry too.                                                   *)

\* The key material after the prefix.
without_prefix(key, prefix) == SubSeq(key, Len(prefix) + 1, Len(key))

\* Ok((key, V::decode(&mut raw_value)?)): None when either part failed.
decoded_item(key, value) ==
    IF ~IsSome(key) THEN None
    ELSE IF ~IsSome(value) THEN None
    ELSE Some(<<Unwrap(key), Unwrap(value)>>)

\* The closure of iter_prefix_values: the value alone.
closure_values(raw_key_without_prefix, raw_value) ==
    decoded_item(Some(<< >>), decode_value(raw_value))

\* The closure of iter_prefix: the remaining key components, then the value.
closure_partial(m, raw_key_without_prefix, raw_value) ==
    decoded_item(decode_partial_key(K, m, raw_key_without_prefix),
                 decode_value(raw_value))

\* The closure of iter: the whole key, what follows it ignored, then the value.
closure_final(raw_key_without_prefix, raw_value) ==
    decoded_item(components(decode_final_key(K, raw_key_without_prefix)),
                 decode_value(raw_value))

closure(it, raw_key_without_prefix, raw_value) ==
    CASE it.closure = "values" -> closure_values(raw_key_without_prefix, raw_value)
      [] it.closure = "partial" ->
             closure_partial(it.m, raw_key_without_prefix, raw_value)
      [] it.closure = "final" -> closure_final(raw_key_without_prefix, raw_value)

\* PrefixIterator::next: the store after the step, the iterator after the step
\* and the item, None when the prefix is exhausted.  An item carries the raw key
\* it was decoded from beside what the closure returned.
RECURSIVE PrefixIterator_next(_, _)
\* The step that ends the iteration at an entry that fails to decode.
next_decoded_stops(s, it, next, item) ==
    IF IsSome(item)
    THEN [store |-> IF it.drain THEN kill(s, next) ELSE s,
          it |-> it,
          item |-> Some([raw |-> next, item |-> Unwrap(item)])]
    ELSE [store |-> s, it |-> it, item |-> None]

\* The step of a draining iterator that yields an entry without removing it.
next_decoded_removes_late(s, it, next, item) ==
    IF IsSome(item)
    THEN [store |-> s,
          it |-> it,
          item |-> Some([raw |-> next, item |-> Unwrap(item)])]
    ELSE PrefixIterator_next(
             IF it.drain /\ it.drain_failed THEN kill(s, next) ELSE s, it)

\* The step once the closure has run on the entry at `next`: the item is
\* yielded, and removed when draining; a failed entry is passed over.
next_decoded(s, it, next, item) ==
    IF IsSome(item)
    THEN [store |-> IF it.drain THEN kill(s, next) ELSE s,
          it |-> it,
          item |-> Some([raw |-> next, item |-> Unwrap(item)])]
    ELSE PrefixIterator_next(
             IF it.drain /\ it.drain_failed THEN kill(s, next) ELSE s, it)

\* The step once the store has named the key after the cursor.
next_from(s, it, maybe_next) ==
    IF ~IsSome(maybe_next) \/ ~starts_with(Unwrap(maybe_next), it.prefix)
    THEN [store |-> s, it |-> it, item |-> None]
    ELSE next_decoded(s, [it EXCEPT !.previous_key = Unwrap(maybe_next)],
                      Unwrap(maybe_next),
                      closure(it, without_prefix(Unwrap(maybe_next), it.prefix),
                              Unwrap(get_raw(s, Unwrap(maybe_next)))))

PrefixIterator_next(s, it) == next_from(s, it, next_key(s, it.previous_key))

\* Iterator::collect: next() until it returns None.
RECURSIVE collect(_, _)
collect_rest(item, rest) == [store |-> rest.store, ret |-> <<item>> \o rest.ret]

collect_from(step) ==
    IF ~IsSome(step.item) THEN [store |-> step.store, ret |-> << >>]
    ELSE collect_rest(Unwrap(step.item), collect(step.store, step.it))

collect(s, it) == collect_from(PrefixIterator_next(s, it))

NoIterator ==
    [prefix |-> << >>, previous_key |-> << >>, drain |-> FALSE,
     drain_failed |-> FALSE, closure |-> "", m |-> Len(<< >>)]

iter_prefix_values(partial_key) ==
    LET prefix == storage_n_map_partial_key(partial_key)
    IN  [prefix |-> prefix, previous_key |-> prefix, drain |-> FALSE,
         drain_failed |-> FALSE, closure |-> "values", m |-> Len(partial_key)]

\* iter_prefix built on the whole map's prefix.
iter_prefix_whole_map(kp) ==
    LET prefix == prefix_hash
    IN  [prefix |-> prefix, previous_key |-> prefix, drain |-> FALSE,
         drain_failed |-> FALSE, closure |-> "partial", m |-> Len(kp)]

iter_prefix(kp) ==
    LET prefix == storage_n_map_partial_key(kp)
    IN  [prefix |-> prefix, previous_key |-> prefix, drain |-> FALSE,
         drain_failed |-> FALSE, closure |-> "partial", m |-> Len(kp)]

\* drain_prefix built on the whole map's prefix.
drain_prefix_whole_map(kp) == [iter_prefix_whole_map(kp) EXCEPT !.drain = TRUE]

drain_prefix(kp) == [iter_prefix(kp) EXCEPT !.drain = TRUE]

\* iter built on the hash of the module prefix alone.
iter_module_prefix ==
    LET prefix == Twox128(module_prefix)
    IN  [prefix |-> prefix, previous_key |-> prefix, drain |-> FALSE,
         drain_failed |-> FALSE, closure |-> "final", m |-> Len(<< >>)]

iter ==
    LET prefix == prefix_hash
    IN  [prefix |-> prefix, previous_key |-> prefix, drain |-> FALSE,
         drain_failed |-> FALSE, closure |-> "final", m |-> Len(<< >>)]

\* drain that leaves the drain flag off.
drain_not_set == iter

drain == [iter EXCEPT !.drain = TRUE]

---------------------------------------------------------------------------
(* translate *)

\* The closures handed to translate in the model.
TranslateFns == {"double", "none", "odd_none", "by_key"}

\* f(final_key, value): Option of the new value.
ApplyF(f, final_key, value) ==
    CASE f = "double" -> Some(value * 2)
      [] f = "none" -> None
      [] f = "odd_none" -> IF value % 2 = 1 THEN None ELSE Some(value + 1)
      [] f = "by_key" -> IF final_key[1] = final_key[2] THEN None
                         ELSE Some(final_key[1])

\* The loop of translate from `previous_key` on: the store it leaves and the raw
\* keys f was applied to, in order.
RECURSIVE translate_loop(_, _, _)
translate_visited(next, rest) == [store |-> rest.store, ret |-> <<next>> \o rest.ret]

\* translate going on from the key after the next one once f returned None.
translate_apply_skips(s, next, f, new) ==
    translate_visited(next,
        IF IsSome(new) THEN translate_loop(put(s, next, Unwrap(new)), next, f)
        ELSE translate_loop(kill(s, next),
                 IF IsSome(next_key(s, next)) THEN Unwrap(next_key(s, next)) ELSE next,
                 f))

\* match f(final_key, value): put the new value or kill the key, and go on.
translate_apply(s, next, f, new) ==
    translate_visited(next,
        translate_loop(IF IsSome(new) THEN put(s, next, Unwrap(new)) ELSE kill(s, next),
                       next, f))

\* The body of the loop of a translate that stops at the first entry that fails
\* to decode.
translate_entry_aborts(s, next, f, value, final_key) ==
    IF ~IsSome(value) THEN [store |-> s, ret |-> << >>]
    ELSE IF ~IsSome(final_key) THEN [store |-> s, ret |-> << >>]
    ELSE translate_apply(s, next, f, ApplyF(f, Unwrap(final_key), Unwrap(value)))

\* The body of the loop for the entry at `next`, read as `value` and its key
\* decoded as `final_key`.
translate_entry(s, next, f, value, final_key) ==
    IF ~IsSome(value) THEN translate_loop(s, next, f)
    ELSE IF ~IsSome(final_key) THEN translate_loop(s, next, f)
    ELSE translate_apply(s, next, f, ApplyF(f, Unwrap(final_key), Unwrap(value)))

translate_from(s, f, prefix, maybe_next) ==
    IF ~IsSome(maybe_next) \/ ~starts_with(Unwrap(maybe_next), prefix)
    THEN [store |-> s, ret |-> << >>]
    ELSE translate_entry(s, Unwrap(maybe_next), f,
             unhashed_get(s, Unwrap(maybe_next)),
             components(decode_final_key(K,
                 without_prefix(Unwrap(maybe_next), prefix))))

translate_loop(s, previous_key, f) ==
    translate_from(s, f, prefix_hash, next_key(s, previous_key))

translate(s, f) == translate_loop(s, prefix_hash, f)

---------------------------------------------------------------------------
(* The state machine: one call at a time against the shared raw store *)

Idle == [name |-> "idle", kind |-> "", key |-> << >>, key2 |-> << >>,
         kg |-> << >>, f |-> NoClosure, ret |-> None, raw |-> << >>,
         pc |-> "idle"]

Init ==
    /\ store = EmptyStore
    /\ pre = EmptyStore
    /\ op = Idle

\* A call `name` that leaves r.store and returns r.ret, having performed the raw
\* store operations r.raw; the model keeps the store within `max` entries.  pre and
\* op keep the call's start and outcome until the caller goes on.
Call(max, name, kind, key, key2, kg, f, r) ==
    /\ op = Idle
    /\ Cardinality(Present(r.store)) <= max
    /\ store' = r.store
    /\ pre' = store
    /\ op' = [name |-> name, kind |-> kind, key |-> key, key2 |-> key2,
              kg |-> kg, f |-> f, ret |-> r.ret, raw |-> r.raw,
              pc |-> "returned"]

\* The outcome of a bulk operation, whose raw store operations are not listed.
Unlisted(r) == [store |-> r.store, ret |-> r.ret, raw |-> << >>]

\* The store holds only raw values of the model.
WithinRawVals(s) == \A k \in Keys : IsSome(s[k]) => Unwrap(s[k]) \in RawVals

\* The caller goes on after a call: the next call starts from the store as it is.
\* The model follows it no further once a call has written a value outside the
\* model's raw values.
Return ==
    /\ op # Idle
    /\ WithinRawVals(store)
    /\ store' = store
    /\ pre' = store
    /\ op' = Idle

\* unhashed::put_raw from outside the map: other pallets, the tests' neighbours
\* of a prefix and the tests' corrupted entries.
RawPut(max, keys) ==
    \E k \in keys, b \in RawVals :
        /\ op = Idle
        /\ Cardinality(Present(put_raw(store, k, b))) <= max
        /\ store' = put_raw(store, k, b)
        /\ pre' = store'
        /\ op' = Idle

ContainsKey ==
    \E key \in Tuples :
        Call(MaxEntries, "contains_key", "", key, << >>, << >>, NoClosure,
             contains_key(store, key))

Get ==
    \E kind \in QueryKinds, key \in Tuples :
        Call(MaxEntries, "get", kind, key, << >>, << >>, NoClosure,
             get(kind, store, key))

TryGet ==
    \E key \in Tuples :
        Call(MaxEntries, "try_get", "", key, << >>, << >>, NoClosure,
             try_get(store, key))

Take ==
    \E kind \in QueryKinds, key \in Tuples :
        Call(MaxEntries, "take", kind, key, << >>, << >>, NoClosure,
             take(kind, store, key))

Swap ==
    \E KOther \in KeyGenerators, key1 \in Tuples, key2 \in Tuples :
        Call(MaxEntries, "swap", "", key1, key2, KOther, NoClosure,
             swap(store, KOther, key1, key2))

Insert ==
    \E key \in Tuples, val \in Vals :
        Call(MaxEntries, "insert", "", key, <<val>>, << >>, NoClosure,
             insert(store, key, val))

Remove ==
    \E key \in Tuples :
        Call(MaxEntries, "remove", "", key, << >>, << >>, NoClosure,
             remove(store, key))

TryMutate ==
    \E kind \in QueryKinds, key \in Tuples :
        \E f \in Closures(Queries(kind)) :
            Call(MaxEntries, "try_mutate", kind, key, << >>, << >>, f,
                 try_mutate(kind, store, key, f))

Mutate ==
    \E kind \in QueryKinds, key \in Tuples :
        \E f \in {c \in Closures(Queries(kind)) : c.res = "Ok"} :
            Call(MaxEntries, "mutate", kind, key, << >>, << >>, f,
                 mutate(kind, store, key, f))

TryMutateExists ==
    \E key \in Tuples, f \in Closures(Options) :
        Call(MaxEntries, "try_mutate_exists", "", key, << >>, << >>, f,
             try_mutate_exists(store, key, f))

MutateExists ==
    \E key \in Tuples, f \in {c \in Closures(Options) : c.res = "Ok"} :
        Call(MaxEntries, "mutate_exists", "", key, << >>, << >>, f,
             mutate_exists(store, key, f))

AppendItem ==
    \E key \in Tuples, item \in Vals :
        Call(MaxEntries, "append", "", key, <<item>>, << >>, NoClosure,
             append(store, key, item))

MigrateKeys ==
    \E key \in Tuples, hash_fns \in KeyGenerators :
        Call(MaxEntries, "migrate_keys", "", key, << >>, hash_fns, NoClosure,
             migrate_keys(store, key, hash_fns))

Next ==
    \/ RawPut(MaxEntries, PointKeys)
    \/ ContainsKey
    \/ Get
    \/ TryGet
    \/ Take
    \/ Swap
    \/ Insert
    \/ Remove
    \/ TryMutate
    \/ Mutate
    \/ TryMutateExists
    \/ MutateExists
    \/ AppendItem
    \/ MigrateKeys
    \/ Return

Spec == Init /\ [][Next]_vars

---------------------------------------------------------------------------
(* The iteration specification: the bulk operations against a store that also *)
(* holds neighbours of the prefixes and malformed entries                     *)

Iter ==
    Call(MaxIterEntries, "iter", "", << >>, << >>, << >>, iter,
         Unlisted(collect(store, iter)))

Drain ==
    \E b \in BOOLEAN :
        LET it == [drain EXCEPT !.drain_failed = b]
        IN  Call(MaxIterEntries, "drain", "", << >>, << >>, << >>, it,
                 Unlisted(collect(store, it)))

IterPrefix ==
    \E k1 \in KeyVals :
        Call(MaxIterEntries, "iter_prefix", "", <<k1>>, << >>, << >>,
             iter_prefix(<<k1>>), Unlisted(collect(store, iter_prefix(<<k1>>))))

IterPrefixValues ==
    \E k1 \in KeyVals :
        Call(MaxIterEntries, "iter_prefix_values", "", <<k1>>, << >>, << >>,
             iter_prefix_values(<<k1>>),
             Unlisted(collect(store, iter_prefix_values(<<k1>>))))

DrainPrefix ==
    \E k1 \in KeyVals, b \in BOOLEAN :
        LET it == [drain_prefix(<<k1>>) EXCEPT !.drain_failed = b]
        IN  Call(MaxIterEntries, "drain_prefix", "", <<k1>>, << >>, << >>, it,
                 Unlisted(collect(store, it)))

Translate ==
    \E f \in TranslateFns :
        Call(MaxIterEntries, "translate", f, << >>, << >>, << >>, NoClosure,
             Unlisted(translate(store, f)))

NextIter ==
    \/ RawPut(MaxIterEntries, IterKeys)
    \/ Iter
    \/ Drain
    \/ IterPrefix
    \/ IterPrefixValues
    \/ DrainPrefix
    \/ Translate
    \/ Return

SpecIter == Init /\ [][NextIter]_vars

---------------------------------------------------------------------------
(* Properties of the single-key operations *)

\* The final key of the last call's key, and of its second key.
FinalKey == storage_n_map_final_key(K, op.key)

OtherKey == storage_n_map_final_key(op.kg, op.key2)

\* The legacy key of the last migrate_keys call.
OldKey == prefix_hash \o migrate_key(op.key, op.kg)

\* Every key outside `ks` holds what it held when the call started.
UnchangedExcept(ks) == \A k \in Keys \ ks : store[k] = pre[k]

\* A key holds bytes that do not decode as a value.
Corrupt(s, k) == IsSome(s[k]) /\ ~IsSome(decode_value(Unwrap(s[k])))

\* What the closure of the last mutate call left behind, as an Option of the value.
LeftByClosure ==
    IF op.name \in {"mutate", "try_mutate"}
    THEN from_query_to_optional_value(op.kind,
             ApplyClosure(op.f, from_optional_value_to_query(op.kind,
                                    unhashed_get(pre, FinalKey))))
    ELSE ApplyClosure(op.f, unhashed_get(pre, FinalKey))

\* C1: when the closure handed to try_mutate or try_mutate_exists returns Err, the
\* whole raw store is what it was before the call, whatever the closure did to the
\* value it was handed, and the Err is what the call returns.
C1_ErrLeavesStoreUnchanged ==
    (op.name \in {"try_mutate", "try_mutate_exists"} /\ op.f.res = "Err")
        => (store = pre /\ op.ret = "Err")

\* A try_mutate on a present key whose closure changed the value and returned Err.
C1_Witness ==
    /\ op.name = "try_mutate"
    /\ op.f.res = "Err"
    /\ op.f.set
    /\ IsSome(pre[FinalKey])
    /\ op.f.q # from_optional_value_to_query(op.kind, unhashed_get(pre, FinalKey))

\* C2: after swap(k1, k2) each of the two final keys holds the raw bytes, or the
\* absence, the other held before the call, and no other key changed; swapping a
\* key with itself or two absent keys changes nothing.
C2_SwapExchangesRaw ==
    op.name = "swap"
        => /\ store[FinalKey] = pre[OtherKey]
           /\ store[OtherKey] = pre[FinalKey]
           /\ UnchangedExcept({FinalKey, OtherKey})

\* A swap of a present entry with an absent one, a third entry standing by.
C2_Witness ==
    /\ op.name = "swap"
    /\ FinalKey # OtherKey
    /\ IsSome(pre[FinalKey])
    /\ ~IsSome(pre[OtherKey])
    /\ ~IsSome(store[FinalKey])
    /\ store[OtherKey] = pre[FinalKey]
    /\ \E k \in Keys \ {FinalKey, OtherKey} : IsSome(store[k])

\* C7: when the legacy key differs from the current final key and holds a value v
\* that decodes, migrate_keys leaves the legacy key absent and the current key
\* holding v, returns Some(v), and changes no other key.
C7_MigrateMoves ==
    (/\ op.name = "migrate_keys"
     /\ OldKey # FinalKey
     /\ IsSome(unhashed_get(pre, OldKey)))
        => /\ ~IsSome(store[OldKey])
           /\ store[FinalKey] = Some(encode(Unwrap(unhashed_get(pre, OldKey))))
           /\ op.ret = unhashed_get(pre, OldKey)
           /\ UnchangedExcept({OldKey, FinalKey})

\* A migration that replaced another value stored under the current key.
C7_Witness ==
    /\ op.name = "migrate_keys"
    /\ OldKey # FinalKey
    /\ IsSome(unhashed_get(pre, OldKey))
    /\ IsSome(pre[FinalKey])
    /\ pre[FinalKey] # pre[OldKey]
    /\ store[FinalKey] = pre[OldKey]

\* C8: migrate_keys with an absent legacy key returns None and leaves the whole
\* store unchanged; so a second call with the same key and hashers, right after
\* one that moved a value from the legacy key to a different current key,
\* returns None and leaves the store unchanged.
C8_MigrateNoOp ==
    op.name = "migrate_keys"
        => /\ ~IsSome(pre[OldKey]) => (op.ret = None /\ store = pre)
           /\ (IsSome(op.ret) /\ OldKey # FinalKey)
                  => /\ migrate_keys(store, op.key, op.kg).ret = None
                     /\ migrate_keys(store, op.key, op.kg).store = store

\* A migrate_keys call that found nothing under the legacy key while the current
\* key held a value.
C8_Witness ==
    /\ op.name = "migrate_keys"
    /\ OldKey # FinalKey
    /\ ~IsSome(pre[OldKey])
    /\ IsSome(pre[FinalKey])
    /\ op.ret = None

C10_OkWritesBack ==
    /\ op.name \in {"mutate", "mutate_exists"} => op.ret = "Ok"
    /\ (/\ op.name \in {"mutate", "try_mutate", "mutate_exists", "try_mutate_exists"}
        /\ op.ret = "Ok")
           => /\ store[FinalKey] = IF IsSome(LeftByClosure)
                                   THEN Some(encode(Unwrap(LeftByClosure)))
                                   ELSE None
              /\ UnchangedExcept({FinalKey})

\* A try_mutate_exists whose closure emptied the Option of a present key and
\* returned Ok, another entry standing by.
C10_Witness ==
    /\ op.name = "try_mutate_exists"
    /\ op.ret = "Ok"
    /\ IsSome(unhashed_get(pre, FinalKey))
    /\ ~IsSome(LeftByClosure)
    /\ ~IsSome(store[FinalKey])
    /\ \E k \in Keys \ {FinalKey} : IsSome(store[k])

---------------------------------------------------------------------------
(* Properties of the iterators and of translate *)

\* The present keys of a store that start with a prefix, and those that extend it.
Under(s, prefix) == {k \in Present(s) : starts_with(k, prefix)}

Extending(s, prefix) == {k \in Under(s, prefix) : k # prefix}

\* An entry of the map that decodes: its key and its value.
WellFormed(s, k) ==
    /\ IsSome(s[k])
    /\ starts_with(k, prefix_hash)
    /\ IsSome(components(decode_final_key(K, without_prefix(k, prefix_hash))))
    /\ IsSome(decode_value(Unwrap(s[k])))

\* The raw keys a sequence of items was decoded from.
RawKeys(items) == {items[i].raw : i \in 1..Len(items)}

\* Items come one per raw key, in the order of the raw keys.
InStoreOrder(items) ==
    \A i, j \in 1..Len(items) : i < j => LexLess(items[i].raw, items[j].raw)

\* Each item is the decoded key and value of the entry the store held at its key.
ItemsOfFinal(items, s) ==
    \A i \in 1..Len(items) :
        items[i].item =
            <<Unwrap(components(decode_final_key(K,
                  without_prefix(items[i].raw, prefix_hash)))),
              Unwrap(decode_value(Unwrap(s[items[i].raw])))>>

\* C3: fully consuming iter() yields exactly the entries whose raw key starts
\* with prefix_hash() and that decode, each once, in the order of the raw keys,
\* and leaves every entry of the store as it was, the neighbours of the prefix
\* included.
C3_IterYieldsDecodable ==
    op.name = "iter"
        => /\ RawKeys(op.ret) = {k \in Under(pre, prefix_hash) : WellFormed(pre, k)}
           /\ InStoreOrder(op.ret)
           /\ ItemsOfFinal(op.ret, pre)
           /\ store = pre

\* An iter() that yielded two entries between both neighbours of the prefix, in
\* an order other than that of the key tuples.
C3_Witness ==
    /\ op.name = "iter"
    /\ Len(op.ret) = 2
    /\ op.ret[1].item[1][1] > op.ret[2].item[1][1]
    /\ IsSome(store[key_before_prefix(prefix_hash)])
    /\ IsSome(store[key_after_prefix(prefix_hash)])

\* C4: on a store whose entries under the map's prefix are all well formed,
\* drain() consumed to the end yields the sequence iter() would have yielded on
\* that store, and afterwards iter() yields nothing and no entry under
\* prefix_hash() is left.
C4_DrainYieldsAsIterAndEmpties ==
    (op.name = "drain" /\ \A k \in Under(pre, prefix_hash) : WellFormed(pre, k))
        => /\ op.ret = collect(pre, iter).ret
           /\ collect(store, iter).ret = << >>
           /\ Under(store, prefix_hash) = {}

\* A drain() of two well-formed entries.
C4_Witness ==
    /\ op.name = "drain"
    /\ \A k \in Under(pre, prefix_hash) : WellFormed(pre, k)
    /\ Len(op.ret) = 2
    /\ Cardinality(Under(pre, prefix_hash)) = 2
    /\ Present(store) # {}

\* The partial key of the last call's first component.
PartialKey == storage_n_map_partial_key(op.key)

\* An entry past the partial key whose value decodes, and one whose second
\* component decodes as well.
ValueDecodes(s, k) == IsSome(s[k]) /\ IsSome(decode_value(Unwrap(s[k])))

SuffixDecodes(k, prefix) == IsSome(decode_partial_key(K, 1, without_prefix(k, prefix)))

\* C5 as stated: iter_prefix((k1,)) and iter_prefix_values((k1,)) yield exactly
\* the entries whose raw key starts with the partial key, each once in store
\* order, and drain_prefix((k1,)) deletes exactly those entries.
C5_PrefixYieldsAllUnderPartialKey ==
    /\ op.name \in {"iter_prefix", "iter_prefix_values"}
           => (RawKeys(op.ret) = Under(pre, PartialKey) /\ InStoreOrder(op.ret))
    /\ op.name = "drain_prefix"
           => Present(pre) \ Present(store) = Under(pre, PartialKey)

\* C5 as the code has it: iter_prefix((k1,)) yields exactly the entries whose raw
\* key extends the partial key and whose key suffix and value decode,
\* iter_prefix_values((k1,)) the values of exactly the entries whose raw key
\* extends the partial key and whose value decodes, each once and in store order
\* and leaving the store as it was; drain_prefix((k1,)) consumed to the end yields
\* what iter_prefix yields and deletes every entry it yields and no entry whose
\* key does not extend the partial key: entries with another first component and
\* the neighbours of the partial key keep their value.
C5_PrefixYieldsDecodable ==
    /\ op.name = "iter_prefix"
           => /\ RawKeys(op.ret)
                     = {k \in Extending(pre, PartialKey) :
                            ValueDecodes(pre, k) /\ SuffixDecodes(k, PartialKey)}
              /\ InStoreOrder(op.ret)
              /\ \A i \in 1..Len(op.ret) :
                     op.ret[i].item
                         = <<Unwrap(decode_partial_key(K, 1,
                                 without_prefix(op.ret[i].raw, PartialKey))),
                             Unwrap(decode_value(Unwrap(pre[op.ret[i].raw])))>>
              /\ store = pre
    /\ op.name = "iter_prefix_values"
           => /\ RawKeys(op.ret)
                     = {k \in Extending(pre, PartialKey) : ValueDecodes(pre, k)}
              /\ InStoreOrder(op.ret)
              /\ \A i \in 1..Len(op.ret) :
                     op.ret[i].item
                         = <<<< >>, Unwrap(decode_value(Unwrap(pre[op.ret[i].raw])))>>
              /\ store = pre
    /\ op.name = "drain_prefix"
           => /\ op.ret = collect(pre, iter_prefix(op.key)).ret
              /\ \A k \in RawKeys(op.ret) : ~IsSome(store[k])
              /\ \A k \in Keys \ Extending(pre, PartialKey) : store[k] = pre[k]
              /\ \A k \in Keys : IsSome(store[k]) => store[k] = pre[k]

\* A drain_prefix that yielded two entries and left an entry of the same map with
\* another first component and a neighbour of the partial key in place.
C5_Witness ==
    /\ op.name = "drain_prefix"
    /\ Len(op.ret) = 2
    /\ \E k \in FinalKeys : ~starts_with(k, PartialKey) /\ IsSome(store[k])
    /\ \E k \in Keys :
           /\ k \in {key_before_prefix(PartialKey), key_after_prefix(PartialKey)}
           /\ IsSome(store[k])

\* What translate is to leave at the key of a well-formed entry.
Translated(f, s, k) ==
    IF IsSome(ApplyF(f, Unwrap(components(decode_final_key(K,
                           without_prefix(k, prefix_hash)))),
                    Unwrap(decode_value(Unwrap(s[k])))))
    THEN Some(encode(Unwrap(ApplyF(f, Unwrap(components(decode_final_key(K,
                                         without_prefix(k, prefix_hash)))),
                                  Unwrap(decode_value(Unwrap(s[k])))))))
    ELSE None

\* C6: translate does not stop at a malformed entry: an entry under the map's
\* prefix whose value or whose key suffix fails to decode keeps its raw key and
\* raw bytes, and every well-formed entry, those after it in store order
\* included, is transformed by f.
C6_TranslateSkipsMalformed ==
    op.name = "translate"
        => \A k \in Under(pre, prefix_hash) :
               IF WellFormed(pre, k) THEN store[k] = Translated(op.kind, pre, k)
               ELSE store[k] = pre[k]

\* A translate that passed an entry with an undecodable value and one with an
\* undecodable key and changed a well-formed entry that comes after both.
C6_Witness ==
    /\ op.name = "translate"
    /\ \E a \in FinalKeys, b \in Keys \ FinalKeys, c \in FinalKeys :
           /\ Corrupt(pre, a)
           /\ b \in Under(pre, prefix_hash) /\ ~Corrupt(pre, b)
           /\ LexLess(a, c) /\ LexLess(b, c)
           /\ WellFormed(pre, c)
           /\ store[c] # pre[c]
           /\ store[a] = pre[a] /\ store[b] = pre[b]

---------------------------------------------------------------------------
(* Further properties of the single-key operations *)

\* C11: insert overwrites unconditionally: whatever the key held before (nothing,
\* another value, undecodable bytes), after insert(k, v) contains_key(k) is true
\* and get(k) is from_optional_value_to_query(Some(v)) for either query kind,
\* insert has read nothing from the store, and every other key holds what it held.
C11_InsertOverwrites ==
    op.name = "insert"
        => /\ contains_key(store, op.key).ret
           /\ \A kind \in QueryKinds :
                  get(kind, store, op.key).ret
                      = from_optional_value_to_query(kind, Some(op.key2[1]))
           /\ \A i \in 1..Len(op.raw) : op.raw[i] # "get"
           /\ UnchangedExcept({FinalKey})

\* An insert over undecodable bytes with a value other than the default, another
\* entry standing by.
C11_Witness ==
    /\ op.name = "insert"
    /\ Corrupt(pre, FinalKey)
    /\ op.key2[1] # DefaultVal
    /\ store[FinalKey] = Some(encode(op.key2[1]))
    /\ \E k \in Keys \ {FinalKey} : IsSome(store[k])

\* C13: the final key of a key tuple starts with the partial key of every strict
\* prefix of its components, which starts with prefix_hash(); the final key is
\* prefix_hash() followed by the hashed encodings of the components in order.
C13_PrefixContainment ==
    (op.name # "idle" /\ Len(op.key) = Len(K))
        => /\ \A m \in 0..(Len(K) - 1) :
                  /\ starts_with(storage_n_map_final_key(K, op.key),
                                 storage_n_map_partial_key(SubSeq(op.key, 1, m)))
                  /\ starts_with(storage_n_map_partial_key(SubSeq(op.key, 1, m)),
                                 prefix_hash)
           /\ storage_n_map_final_key(K, op.key)
                  = prefix_hash \o Hash(K[1], encode(op.key[1]))
                                \o Hash(K[2], encode(op.key[2]))

\* An insert under a tuple of two different components: the entry sits at a key
\* that extends the partial key of the first component.
C13_Witness ==
    /\ op.name = "insert"
    /\ op.key[1] # op.key[2]
    /\ IsSome(store[FinalKey])
    /\ FinalKey # storage_n_map_partial_key(<<op.key[1]>>)
    /\ starts_with(FinalKey, storage_n_map_partial_key(<<op.key[1]>>))
    /\ storage_n_map_partial_key(<<op.key[1]>>) # prefix_hash

\* The single-key operations of the map.
SingleKeyOps ==
    {"contains_key", "get", "try_get", "take", "insert", "remove", "swap", "mutate",
     "try_mutate", "mutate_exists", "try_mutate_exists", "append", "migrate_keys"}

\* C18 as stated: every single-key operation performs exactly one or two raw
\* store operations.
C18_OneOrTwoRawOperations ==
    op.name \in SingleKeyOps => Len(op.raw) \in {1, 2}

\* C18 as the code has it: contains_key, get and try_get perform one read, insert
\* one put, remove one delete, append one append; take reads and deletes only when
\* it read a value; the mutate family reads and, on Ok, puts or deletes; swap
\* always performs four operations, two reads and a put or delete on each key;
\* migrate_keys reads the legacy key and, when it read a value, deletes it and
\* puts the value under the current key: three operations.
C18_RawOperationCounts ==
    /\ op.name \in {"contains_key", "get", "try_get"} => op.raw = <<"get">>
    /\ op.name = "insert" => op.raw = <<"put">>
    /\ op.name = "remove" => op.raw = <<"delete">>
    /\ op.name = "append" => op.raw = <<"append">>
    /\ op.name = "take"
           => op.raw = IF IsSome(unhashed_get(pre, FinalKey))
                       THEN <<"get", "delete">> ELSE <<"get">>
    /\ op.name \in {"mutate", "try_mutate", "mutate_exists", "try_mutate_exists"}
           => /\ op.raw[1] = "get"
              /\ Len(op.raw) = IF op.ret = "Ok" THEN 2 ELSE 1
              /\ op.ret = "Ok" => op.raw[2] \in {"put", "delete"}
    /\ op.name = "swap"
           => /\ Len(op.raw) = 4
              /\ op.raw[1] = "get" /\ op.raw[2] = "get"
              /\ op.raw[3] \in {"put", "delete"} /\ op.raw[4] \in {"put", "delete"}
    /\ op.name = "migrate_keys"
           => op.raw = IF IsSome(unhashed_get(pre, OldKey))
                       THEN <<"get", "delete", "put">> ELSE <<"get">>

\* A swap of a present entry with an absent one: two reads, a delete and a put.
C18_Witness ==
    /\ op.name = "swap"
    /\ FinalKey # OtherKey
    /\ IsSome(pre[FinalKey])
    /\ ~IsSome(pre[OtherKey])
    /\ op.raw = <<"get", "get", "delete", "put">>

\* The query the closure of the last mutate / try_mutate was handed.
HandedQuery == from_optional_value_to_query(op.kind, unhashed_get(pre, FinalKey))

\* C20: a mutate / try_mutate whose closure returns Ok and leaves the query as it
\* was handed leaves get(key) as it was before the call, for either query kind and
\* for a key that was absent, present or holding undecodable bytes.
C20_UnchangedQueryKeepsGet ==
    (/\ op.name \in {"mutate", "try_mutate"}
     /\ op.ret = "Ok"
     /\ ApplyClosure(op.f, HandedQuery) = HandedQuery)
        => get(op.kind, store, op.key).ret = get(op.kind, pre, op.key).ret

\* Such a call on an absent key of a ValueQuery map: the default is written under
\* the key, and get still gives the default.
C20_Witness ==
    /\ op.name = "mutate"
    /\ ~op.f.set
    /\ op.kind = "ValueQuery"
    /\ ~IsSome(pre[FinalKey])
    /\ store[FinalKey] = Some(encode(DefaultVal))
    /\ store # pre
    /\ get(op.kind, store, op.key).ret = <<DefaultVal>>

---------------------------------------------------------------------------
(* Further properties of the iterators and of translate *)

\* C14: translate applies f exactly once to each entry that was well formed under
\* the map's prefix when the call started, in store order, and to nothing else,
\* also when f returns None for some entries and so deletes keys on the way; each
\* visited key then holds the encoding of what f returned, or nothing when f
\* returned None.
C14_TranslateVisitsEachOnce ==
    op.name = "translate"
        => /\ {op.ret[i] : i \in 1..Len(op.ret)}
                  = {k \in Under(pre, prefix_hash) : WellFormed(pre, k)}
           /\ \A i, j \in 1..Len(op.ret) : i < j => LexLess(op.ret[i], op.ret[j])
           /\ \A i \in 1..Len(op.ret) :
                  store[op.ret[i]] = Translated(op.kind, pre, op.ret[i])

\* A translate whose f deleted an entry and then changed the value of an entry
\* after it, and kept the value of a third.
C14_Witness ==
    /\ op.name = "translate"
    /\ Len(op.ret) = 3
    /\ \E i, j \in 1..Len(op.ret) :
           /\ i < j
           /\ ~IsSome(store[op.ret[i]])
           /\ IsSome(store[op.ret[j]])
           /\ store[op.ret[j]] # pre[op.ret[j]]

\* C16: a malformed entry does not end an iteration: iter() and a draining
\* iteration yield every well-formed entry under the map's prefix, those that
\* follow an entry with a cut or undecodable key suffix or an undecodable value
\* included, and yield nothing for the malformed entries.
C16_MalformedDoesNotEndIteration ==
    op.name \in {"iter", "drain"}
        => \A k \in Under(pre, prefix_hash) :
               WellFormed(pre, k) <=> k \in RawKeys(op.ret)

\* A draining iteration that yielded an entry stored after an entry with an
\* undecodable value and after an entry with an undecodable key.
C16_Witness ==
    /\ op.name = "drain"
    /\ \E a \in FinalKeys, b \in Keys \ FinalKeys, c \in FinalKeys :
           /\ Corrupt(pre, a)
           /\ b \in Under(pre, prefix_hash) /\ ~Corrupt(pre, b)
           /\ LexLess(a, c) /\ LexLess(b, c)
           /\ c \in RawKeys(op.ret)
           /\ a \notin RawKeys(op.ret) /\ b \notin RawKeys(op.ret)

---------------------------------------------------------------------------
(* The stepwise specifications: a draining iterator advanced one next() at a *)
(* time and dropped at any point, the loop of translate taken one iteration  *)
(* at a time, and remove_prefix invoked again until it reports completion.   *)
(* op.pc is "running" while the iterator or loop can go on and "done" once   *)
(* it is exhausted; pre is the store at the start (for remove_prefix, at the *)
(* start of the last invocation).                                            *)

\* One iteration of translate's loop that stays at its cursor when the entry
\* fails to decode.
translate_step_stays(s, previous_key, f) ==
    LET maybe_next == next_key(s, previous_key)
        next == Unwrap(maybe_next)
        value == unhashed_get(s, next)
        final_key == components(decode_final_key(K, without_prefix(next, prefix_hash)))
        new == ApplyF(f, Unwrap(final_key), Unwrap(value))
    IN  IF ~IsSome(maybe_next) \/ ~starts_with(next, prefix_hash)
        THEN [store |-> s, previous_key |-> previous_key, done |-> TRUE,
              applied |-> << >>]
        ELSE IF ~IsSome(value) \/ ~IsSome(final_key)
        THEN [store |-> s, previous_key |-> previous_key, done |-> FALSE,
              applied |-> << >>]
        ELSE [store |-> IF IsSome(new) THEN put(s, next, Unwrap(new))
                        ELSE kill(s, next),
              previous_key |-> next, done |-> FALSE, applied |-> <<next>>]

\* One iteration of translate's loop from the cursor previous_key: the store and
\* the cursor after it, whether the loop ended instead, and the key f was applied
\* to, if any.
translate_step(s, previous_key, f) ==
    LET maybe_next == next_key(s, previous_key)
        next == Unwrap(maybe_next)
        value == unhashed_get(s, next)
        final_key == components(decode_final_key(K, without_prefix(next, prefix_hash)))
        new == ApplyF(f, Unwrap(final_key), Unwrap(value))
    IN  IF ~IsSome(maybe_next) \/ ~starts_with(next, prefix_hash)
        THEN [store |-> s, previous_key |-> previous_key, done |-> TRUE,
              applied |-> << >>]
        ELSE IF ~IsSome(value) \/ ~IsSome(final_key)
        THEN [store |-> s, previous_key |-> next, done |-> FALSE,
              applied |-> << >>]
        ELSE [store |-> IF IsSome(new) THEN put(s, next, Unwrap(new))
                        ELSE kill(s, next),
              previous_key |-> next, done |-> FALSE, applied |-> <<next>>]

\* The limits handed to remove_prefix.
Limits == {None} \cup {Some(n) : n \in 0..MaxLimit}

\* let mut it = drain(): op.f is the iterator, op.key2 the number of next() calls
\* made, op.ret the items yielded.
StartDrain ==
    \E b \in BOOLEAN :
        /\ op = Idle
        /\ store' = store
        /\ pre' = store
        /\ op' = [Idle EXCEPT !.name = "drain_next",
                              !.f = [drain EXCEPT !.drain_failed = b],
                              !.key2 = <<0>>, !.pc = "running"]

StartDrainPrefix ==
    \E k1 \in KeyVals, b \in BOOLEAN :
        /\ op = Idle
        /\ store' = store
        /\ pre' = store
        /\ op' = [Idle EXCEPT !.name = "drain_prefix_next", !.key = <<k1>>,
                              !.f = [drain_prefix(<<k1>>) EXCEPT !.drain_failed = b],
                              !.key2 = <<0>>, !.pc = "running"]

\* it.next()
NextItem ==
    /\ op.name \in {"drain_next", "drain_prefix_next"}
    /\ op.pc = "running"
    /\ LET step == PrefixIterator_next(store, op.f)
       IN  /\ store' = step.store
           /\ pre' = pre
           /\ op' = [op EXCEPT !.f = step.it,
                               !.ret = IF IsSome(step.item)
                                       THEN Append(@, Unwrap(step.item)) ELSE @,
                               !.key2 = <<@[1] + 1>>,
                               !.pc = IF IsSome(step.item) THEN "running" ELSE "done"]

\* drop(it), exhausted or not.
Drop ==
    /\ op.name \in {"drain_next", "drain_prefix_next"}
    /\ WithinRawVals(store)
    /\ store' = store
    /\ pre' = store
    /\ op' = Idle

\* translate(f) entered: op.key is previous_key, op.key2 the number of iterations
\* made, op.ret the keys f was applied to.
StartTranslate ==
    \E f \in TranslateFns :
        /\ op = Idle
        /\ store' = store
        /\ pre' = store
        /\ op' = [Idle EXCEPT !.name = "translate_loop", !.kind = f,
                              !.key = prefix_hash, !.key2 = <<0>>,
                              !.pc = "running"]

\* The loop after an iteration with outcome r.
Stepped(r) ==
    /\ store' = r.store
    /\ pre' = pre
    /\ op' = [op EXCEPT !.key = r.previous_key,
                        !.key2 = <<@[1] + 1>>,
                        !.ret = @ \o r.applied,
                        !.pc = IF r.done THEN "done" ELSE "running"]

\* translate is inside its loop, within the iterations the model follows.
InTranslateLoop ==
    op.name = "translate_loop" /\ op.pc = "running" /\ op.key2[1] < MaxIterations

\* One iteration of the while loop, or its end.
TranslateStep ==
    /\ InTranslateLoop
    /\ Stepped(translate_step(store, op.key, op.kind))

\* The outcome of one remove_prefix call as the caller's loop sees it; op.kg counts
\* the invocations, op.key2 is the limit of the last one.
Removed(k1, limit, calls, r) ==
    /\ store' = r.store
    /\ pre' = store
    /\ op' = [Idle EXCEPT !.name = "remove_prefix", !.key = <<k1>>, !.key2 = limit,
                          !.kg = <<calls>>, !.ret = r.ret,
                          !.pc = IF r.ret[1] = "AllRemoved" THEN "done"
                                 ELSE "running"]

StartRemove ==
    \E k1 \in KeyVals, limit \in Limits :
        /\ op = Idle
        /\ Removed(k1, limit, 1, remove_prefix(store, <<k1>>, limit))

\* The caller invokes remove_prefix again, with a positive limit, after it
\* reported that entries remain.
RemoveAgain ==
    \E n \in 1..MaxLimit :
        /\ op.name = "remove_prefix"
        /\ op.pc = "running"
        /\ Removed(op.key[1], Some(n), op.kg[1] + 1,
                   remove_prefix(store, op.key, Some(n)))

\* translate has returned, or remove_prefix has reported completion.
Finish ==
    /\ op.name \in {"translate_loop", "remove_prefix"}
    /\ op.pc = "done"
    /\ WithinRawVals(store)
    /\ store' = store
    /\ pre' = store
    /\ op' = Idle

NextSteps ==
    \/ RawPut(MaxStepEntries, IterKeys)
    \/ StartDrain
    \/ StartDrainPrefix
    \/ NextItem
    \/ Drop
    \/ StartTranslate
    \/ TranslateStep
    \/ StartRemove
    \/ RemoveAgain
    \/ Finish

\* Weak fairness of TranslateStep: translate, a synchronous call, runs on while
\* its loop has not ended.  ENABLED <<TranslateStep>>_vars is written as the state
\* predicate it equals, InTranslateLoop: every iteration changes op, by its count.
TranslateRunsOn == []<>(~InTranslateLoop) \/ []<><<TranslateStep>>_vars

SpecSteps == Init /\ [][NextSteps]_vars

\* The loops alone, on a smaller store, with the fairness their termination is
\* about: translate runs to its end once called, and the caller of remove_prefix
\* goes on until completion is reported.
NextLoops ==
    \/ RawPut(MaxLoopEntries, IterKeys)
    \/ StartTranslate
    \/ TranslateStep
    \/ StartRemove
    \/ RemoveAgain
    \/ Finish

SpecLoops ==
    Init /\ [][NextLoops]_vars /\ TranslateRunsOn /\ WF_vars(RemoveAgain)

---------------------------------------------------------------------------
(* Properties of remove_prefix, of a draining iterator left early and of the *)
(* loop of translate                                                         *)

\* The entries present when the call started and absent now.
Deleted == Present(pre) \ Present(store)

\* What one remove_prefix call does: it creates and changes nothing, deletes only
\* entries under the partial key and no more of them than the limit, counts them,
\* reports completion exactly when nothing under the partial key is left, and
\* with no limit leaves nothing under it.
C12_OneCall ==
    op.name = "remove_prefix"
        => /\ \A k \in Keys : IsSome(store[k]) => store[k] = pre[k]
           /\ Deleted \subseteq Under(pre, PartialKey)
           /\ IsSome(op.key2) => Cardinality(Deleted) <= Unwrap(op.key2)
           /\ op.ret[2] = Cardinality(Deleted)
           /\ Under(store, PartialKey) # {} <=> op.ret[1] = "SomeRemaining"
           /\ Under(store, PartialKey) = {} <=> op.ret[1] = "AllRemoved"
           /\ ~IsSome(op.key2) => Under(store, PartialKey) = {}

\* C12: remove_prefix(partial_key, Some(n)) deletes at most n entries, all under
\* the partial key; while entries under it remain it reports that some remain,
\* and invoking it again with a positive limit until it reports completion leads
\* to a store with no entry under the partial key; with limit None one call
\* removes every entry under it.
C12_RemovePrefixBoundedAndResumable ==
    /\ []C12_OneCall
    /\ (op.name = "remove_prefix")
           ~> (/\ op.name = "remove_prefix"
               /\ op.ret[1] = "AllRemoved"
               /\ Under(store, PartialKey) = {})

\* A second invocation that reported completion after the first, with limit 1,
\* had deleted one entry and left one.
C12_Witness ==
    /\ op.name = "remove_prefix"
    /\ op.kg = <<2>>
    /\ op.ret = <<"AllRemoved", 1>>
    /\ Cardinality(Under(pre, PartialKey)) = 1
    /\ Present(store) = {}

\* The entries a draining iterator with prefix `prefix` is to yield are all that
\* is under the prefix: every entry under it extends it and decodes.
AllWellFormedUnder(it, s) ==
    \A k \in Under(s, it.prefix) :
        /\ k # it.prefix
        /\ ValueDecodes(s, k)
        /\ IF it.closure = "final" THEN WellFormed(s, k)
           ELSE SuffixDecodes(k, it.prefix)

\* C15: draining is lazy and per entry.  At any point of a drain() or
\* drain_prefix() over well-formed entries, after n calls to next(), the entries
\* deleted are exactly the ones yielded, which are the first n (or all, when there
\* are fewer) in store order; every other entry is present with its value; the
\* cursor is at the last yielded key, whose entry is already gone.  Dropping the
\* iterator changes nothing in the store.
C15_DrainIsLazy ==
    /\ [](( /\ op.name \in {"drain_next", "drain_prefix_next"}
            /\ AllWellFormedUnder(op.f, pre))
           => /\ Deleted = RawKeys(op.ret)
              /\ \A k \in Keys \ RawKeys(op.ret) : store[k] = pre[k]
              /\ InStoreOrder(op.ret)
              /\ Len(op.ret)
                     = IF op.key2[1] <= Cardinality(Under(pre, op.f.prefix))
                       THEN op.key2[1] ELSE Cardinality(Under(pre, op.f.prefix))
              /\ \A k \in Under(pre, op.f.prefix) :
                     k \in RawKeys(op.ret)
                         \/ \A j \in RawKeys(op.ret) : LexLess(j, k)
              /\ Len(op.ret) > 0
                     => /\ op.f.previous_key = op.ret[Len(op.ret)].raw
                        /\ ~IsSome(store[op.f.previous_key]))
    /\ [][(op.name \in {"drain_next", "drain_prefix_next"} /\ op'.name = "idle")
              => store' = store]_vars

\* A drain() left after one next(): one of three entries yielded and gone, the
\* other two in place.
C15_Witness ==
    /\ op.name = "drain_next"
    /\ AllWellFormedUnder(op.f, pre)
    /\ op.key2 = <<1>>
    /\ Len(op.ret) = 1
    /\ Cardinality(Under(pre, prefix_hash)) = 3
    /\ Cardinality(Under(store, prefix_hash)) = 2

\* C17: drain, drain_prefix, remove_prefix and translate never create, change or
\* delete an entry whose raw key does not start with the prefix the operation
\* works under, prefix_hash() or the partial key, at any point of their run.
C17_BulkOperationsStayUnderPrefix ==
    /\ op.name \in {"drain_next", "translate_loop"}
           => \A k \in Keys : ~starts_with(k, prefix_hash) => store[k] = pre[k]
    /\ op.name \in {"drain_prefix_next", "remove_prefix"}
           => \A k \in Keys : ~starts_with(k, PartialKey) => store[k] = pre[k]

\* A drain_prefix run to its end that deleted an entry while an entry with
\* another first component and a neighbour of the partial key stayed.
C17_Witness ==
    /\ op.name = "drain_prefix_next"
    /\ op.pc = "done"
    /\ Len(op.ret) = 1
    /\ \E k \in FinalKeys : ~starts_with(k, PartialKey) /\ IsSome(store[k])
    /\ \E k \in Keys :
           /\ k \in {key_before_prefix(PartialKey), key_after_prefix(PartialKey)}
           /\ IsSome(store[k])

\* C19: translate terminates.  Every iteration of its loop moves the cursor to a
\* strictly later raw key, whether f returned Some or None or the entry was
\* skipped, or ends the loop, which it does exactly when the store has no further
\* key or the next key does not start with the prefix; the loop does end, and
\* leaves what translate leaves.
C19_TranslateTerminates ==
    /\ [][(op.name = "translate_loop" /\ op'.name = "translate_loop")
              => \/ /\ op'.pc = "running"
                    /\ LexLess(op.key, op'.key)
                    /\ starts_with(op'.key, prefix_hash)
                 \/ /\ op'.pc = "done"
                    /\ store' = store
                    /\ \A k \in Present(store) :
                           LexLess(op.key, k) => ~starts_with(k, prefix_hash)]_vars
    /\ (op.name = "translate_loop")
           ~> (op.name = "translate_loop" /\ op.pc = "done")
    /\ []((op.name = "translate_loop" /\ op.pc = "done")
              => /\ store = translate(pre, op.kind).store
                 /\ op.ret = translate(pre, op.kind).ret)

\* A translate that ended after passing a malformed entry and overwriting in
\* place the entry after it.
C19_Witness ==
    /\ op.name = "translate_loop"
    /\ op.pc = "done"
    /\ op.kind = "double"
    /\ Len(op.ret) = 1
    /\ \E k \in Under(pre, prefix_hash) :
           ~WellFormed(pre, k) /\ LexLess(k, op.ret[1])
    /\ store[op.ret[1]] # pre[op.ret[1]]
    /\ Present(store) = Present(pre)

====
